---- MODULE Spec2Model ----
(***************************************************************************)
(* k8s-dump: dumpCluster lists the namespaces of a cluster and dumps the   *)
(* objects of a fixed set of resource types of each namespace into one     *)
(* file per namespace (src/main.go).                                       *)
(*                                                                         *)
(* Spec      the run of main/dumpCluster: the main goroutine, one          *)
(*           goroutine per namespace, the API server's answers and the     *)
(*           file system.                                                  *)
(* SpecYaml  marshalYaml as a function on text, the text being a sequence  *)
(*           of tokens.                                                    *)
(***************************************************************************)
EXTENDS Integers, Sequences, FiniteSets, TLC

\* ------------------------------------------------------------------ bounds
\* Namespaces the listing may return (named 1..MaxNs).
MaxNs == 2
\* Resource types of the mapping that a dump ranges over (the first MaxTypes
\* of TypeSample); the mapping itself is modelled whole.
MaxTypes == 3
\* Objects a successful query may return.
MaxItems == 1
\* Entries of the --skip-types list.
MaxSkip == 1
\* Tokens of the YAML text of an object.
MaxLen == 4

\* ------------------------------------------------------- program state
VARIABLES
    proc,        \* the process: "running", "exit0" (os.Exit(0) or main returns), "fatal" (glog.Fatalf)
    mpc,         \* position of the main goroutine in dumpCluster
    nss,         \* nss.Items: the namespace listing, a sequence of [Name, Phase]
    namespace,   \* the --namespace flag (0 is the empty string)
    skipTypes,   \* the --skip-types flag, a sequence of type names
    idx,         \* position of the range loop over nss.Items
    wg,          \* the sync.WaitGroup counter
    task,        \* the dumpNamespace activations: 0 is main's own call, i the goroutine of nss.Items[i]
    files,       \* the file system under the output directory: path -> content
    requests,    \* API server: GET requests received, per namespace and resource
    responses,   \* API server: its last answer, per namespace and resource
    writes,      \* file system: ioutil.WriteFile calls that succeeded, per path
    writers,     \* file system: the activations that wrote each path
    calls,       \* dumpNamespace calls, per namespace argument
    spawned,     \* go statements executed, per listing position
    logDone,     \* glog: number of "done" lines
    obj,         \* marshalYaml: the object
    buf,         \* marshalYaml: tmplBuf
    yamlOut,     \* marshalYaml: the string returned
    ypc          \* marshalYaml: position

cvars == <<proc, mpc, nss, namespace, skipTypes, idx, wg, task, files,
           requests, responses, writes, writers, calls, spawned, logDone>>
yvars == <<obj, buf, yamlOut, ypc>>
vars == <<proc, mpc, nss, namespace, skipTypes, idx, wg, task, files,
          requests, responses, writes, writers, calls, spawned, logDone,
          obj, buf, yamlOut, ypc>>

\* ------------------------------------------------------------ the mapping
K8sObject(kind, pkg, elem) ==
    [APIVersion |-> "", Kind |-> kind,
     Runtime |-> [Pkg |-> pkg, Elem |-> elem, Items |-> <<>>]]

\* newMappingFactoring: resource type -> k8sObject{Kind, Runtime: &<pkg>.<elem>List{}}
NewMappingFactoring ==
    [configmaps               |-> K8sObject("ConfigMap", "api", "ConfigMap"),
     daemonsets               |-> K8sObject("DaemonSet", "extensions", "DaemonSet"),
     deployments              |-> K8sObject("Deployment", "extensions", "Deployment"),
     endpoints                |-> K8sObject("Endpoints", "api", "Endpoints"),
     horizontalpodautoscalers |-> K8sObject("ConfigMap", "autoscalingapiv1", "HorizontalPodAutoscaler"),
     ingresses                |-> K8sObject("Ingress", "extensions", "Ingress"),
     jobs                     |-> K8sObject("Job", "batch", "Job"),
     limitranges              |-> K8sObject("LimitRange", "api", "LimitRange"),
     networkpolicies          |-> K8sObject("NetworkPolicy", "extensions", "NetworkPolicy"),
     persistentvolumeclaims   |-> K8sObject("PersistentVolumeClaim", "api", "PersistentVolumeClaim"),
     persistentvolumes        |-> K8sObject("PersistentVolume", "api", "PersistentVolume"),
     podsecuritypolicies      |-> K8sObject("PodSecurityPolicy", "extensions", "PodSecurityPolicy"),
     podtemplates             |-> K8sObject("PodTemplate", "api", "PodTemplate"),
     replicasets              |-> K8sObject("ReplicaSet", "extensions", "ReplicaSet"),
     replicationcontrollers   |-> K8sObject("ReplicationController", "api", "ReplicationController"),
     resourcequotas           |-> K8sObject("ConfigMap", "api", "ConfigMap"),
     services                 |-> K8sObject("Service", "api", "Service"),
     secrets                  |-> K8sObject("Secret", "api", "Secret"),
     statefulsets             |-> K8sObject("StatefulSet", "apps", "StatefulSet"),
     storageclasses           |-> K8sObject("StorageClass", "storage", "StorageClass"),
     thirdpartyresources      |-> K8sObject("ThirdPartyResource", "extensions", "ThirdPartyResource")]

AllTypes == DOMAIN NewMappingFactoring

\* The keys of the mapping in the order text/template ranges over a map
\* (sorted keys).
SortedTypes ==
    <<"configmaps", "daemonsets", "deployments", "endpoints",
      "horizontalpodautoscalers", "ingresses", "jobs", "limitranges",
      "networkpolicies", "persistentvolumeclaims", "persistentvolumes",
      "podsecuritypolicies", "podtemplates", "replicasets",
      "replicationcontrollers", "resourcequotas", "secrets", "services",
      "statefulsets", "storageclasses", "thirdpartyresources">>

\* The order in which the bound MaxTypes admits the types into a dump: one
\* type of every case of the switch of dumpNamespace first.
TypeSample ==
    <<"configmaps", "horizontalpodautoscalers", "jobs", "statefulsets",
      "storageclasses", "daemonsets", "resourcequotas", "deployments",
      "endpoints", "ingresses", "limitranges", "networkpolicies",
      "persistentvolumeclaims", "persistentvolumes", "podsecuritypolicies",
      "podtemplates", "replicasets", "replicationcontrollers", "secrets",
      "services", "thirdpartyresources">>

Min(a, b) == IF a < b THEN a ELSE b

ModelTypes == {TypeSample[i] : i \in 1..Min(MaxTypes, Len(TypeSample))}

\* The mapping a dump ranges over.
RangeMapping == [t \in ModelTypes |-> NewMappingFactoring[t]]

\* The switch of dumpNamespace: the REST client and the apiVersion label.
ExtensionsTypes ==
    {"daemonsets", "deployments", "ingresses", "networkpolicies",
     "podsecuritypolicies", "replicasets", "thirdpartyresources"}

RestClient(objectType) ==
    CASE objectType = "horizontalpodautoscalers" -> "Autoscaling"
      [] objectType = "jobs" -> "Batch"
      [] objectType = "statefulsets" -> "Apps"
      [] objectType = "storageclasses" -> "Storage"
      [] objectType \in ExtensionsTypes -> "Extensions"
      [] OTHER -> "Core"

ApiVersionOf(objectType) ==
    CASE objectType = "horizontalpodautoscalers" -> "extensions/v1beta1"
      [] objectType = "jobs" -> "batch/v2alpha1"
      [] objectType = "statefulsets" -> "apps/v1beta1"
      [] objectType = "storageclasses" -> "storage.k8s.io/v1beta1"
      [] objectType \in ExtensionsTypes -> "extensions/v1beta1"
      [] OTHER -> "v1"

\* ------------------------------------------------------------- helpers
EmptyName == 0
ListedNames == 1..MaxNs
\* MaxNs + 1 is a name the listing never returns.
AllNames == 1..(MaxNs + 1)
Executors == 0..MaxNs
Output == "out"

\* Path with the namespace left out of the file name: one path for all.
PathShared(output, ns) == <<output, 1, "yaml">>

\* fmt.Sprintf("%v/%v.yaml", output, ns)
Path(output, ns) == <<output, ns, "yaml">>

\* The files a dump can name: <output>/<name>.yaml
Paths == {<<Output, n, "yaml">> : n \in AllNames}
NoFile == [exists |-> FALSE]

\* skipType with the comparison never true.
SkipTypeNever(skip, names) == FALSE

\* skipType: true if the slice holds an element equal to skip
SkipType(skip, names) == \E i \in 1..Len(names) : skip = names[i]

\* IsNotFound taking every error for a not-found.
IsNotFoundAny(err) == TRUE

\* k8s_errors.IsNotFound
IsNotFound(err) == err = "notfound"

\* The phase test never true.
IsTerminatingNever(ns) == FALSE

\* ns.Status.Phase == api.NamespaceTerminating
IsTerminating(ns) == ns.Phase = "Terminating"

\* The namespace test never true.
SingleNamespaceNever(n) == FALSE

\* namespace != ""
SingleNamespace(n) == n # EmptyName

\* wg.Wait returning whatever the counter.
WaitReturnsAtOnce(counter) == TRUE

\* wg.Wait returns when the counter is zero
WaitReturns(counter) == counter = 0

\* "there is no object of type %v in namespace %v"
NotFoundMessage(objectType, ns) == [Type |-> objectType, Ns |-> ns]

\* The message appended twice.
AppendNotFoundTwice(notFound, objectType, ns) ==
    notFound \o <<NotFoundMessage(objectType, ns), NotFoundMessage(objectType, ns)>>

\* notFound = append(notFound, fmt.Sprintf(...))
AppendNotFound(notFound, objectType, ns) ==
    Append(notFound, NotFoundMessage(objectType, ns))

\* The objects the API server returns for a resource of a namespace.
ItemsOf(ns, objectType, n) ==
    [k \in 1..n |-> [Namespace |-> ns, Resource |-> objectType, Index |-> k]]

\* The objectToYaml template function: the document of one object, with the
\* labels marshalYaml writes in front of it.
ObjectToYaml(kind, apiVersion, item) ==
    [apiVersion |-> apiVersion, kind |-> kind, object |-> item]

\* The "iterate" template: the types in sorted key order, those with no
\* items left out, every item through objectToYaml.
Iterate(types) ==
    LET keys == SelectSeq(SortedTypes,
                   LAMBDA k : k \in DOMAIN types /\ Len(types[k].Runtime.Items) # 0)
    IN  [i \in 1..Len(keys) |->
            [type |-> keys[i],
             objects |-> [j \in 1..Len(types[keys[i]].Runtime.Items) |->
                            ObjectToYaml(types[keys[i]].Kind, types[keys[i]].APIVersion,
                                         types[keys[i]].Runtime.Items[j])]]]

\* t.Execute(tmplBuf, content): the text of the namespace file.
Template(content) ==
    [exists |-> TRUE,
     errors |-> content.notFound,
     name |-> content.name,
     sections |-> Iterate(content.types)]

EmptyFn == [x \in {} |-> 0]

\* An activation that is not running.
IdleTask == [pc |-> "idle", name |-> EmptyName, ns |-> EmptyName, remaining |-> {},
             mapping |-> EmptyFn, data |-> EmptyFn, notFound |-> <<>>, err |-> ""]

\* The state of dumpNamespace after lines 282-300: fresh content, data,
\* notFound, and a fresh mapping to range over.
DumpNamespaceBegin(name, ns) ==
    [pc |-> "loop", name |-> name, ns |-> ns, remaining |-> DOMAIN RangeMapping,
     mapping |-> RangeMapping, data |-> EmptyFn, notFound |-> <<>>, err |-> ""]

\* The state of an activation after dumpNamespace returned.
Returned(t, pc, err) ==
    [IdleTask EXCEPT !.pc = pc, !.name = t.name, !.ns = t.ns, !.err = err]

\* The goroutine reading the loop variable ns, shared with the loop, in place
\* of its copy.
GoroutineNameLoopVar(id) == nss[Min(idx, Len(nss))].Name

\* The name the goroutine passes to dumpNamespace: its own copy (name := ns.Name).
GoroutineName(id) == task[id].name

\* ---------------------------------------------------------------- Init
Phases == {"Active", "Terminating"}

Listings ==
    UNION {[1..n -> Phases] : n \in 0..MaxNs}

SkipLists ==
    UNION {[1..n -> ModelTypes \cup {"serviceaccount"}] : n \in 0..MaxSkip}

YamlIdle ==
    /\ obj = [kind |-> "Other", status |-> FALSE, body |-> <<>>]
    /\ buf = <<>>
    /\ yamlOut = <<>>
    /\ ypc = "idle"

ClusterInit(listing, flagNamespace, flagSkip) ==
    /\ proc = "running"
    /\ mpc = "list"
    /\ nss = [i \in 1..Len(listing) |-> [Name |-> i, Phase |-> listing[i]]]
    /\ namespace = flagNamespace
    /\ skipTypes = flagSkip
    /\ idx = 1
    /\ wg = 0
    /\ task = [id \in Executors |-> IdleTask]
    /\ files = [p \in Paths |-> NoFile]
    /\ requests = [n \in AllNames |-> [t \in ModelTypes |-> 0]]
    /\ responses = [n \in AllNames |-> [t \in ModelTypes |-> [status |-> "none", items |-> 0]]]
    /\ writes = [p \in Paths |-> 0]
    /\ writers = [p \in Paths |-> {}]
    /\ calls = [n \in AllNames |-> 0]
    /\ spawned = [i \in ListedNames |-> 0]
    /\ logDone = 0

Init ==
    /\ \E listing \in Listings, flagNamespace \in {EmptyName} \cup AllNames,
          flagSkip \in SkipLists :
          ClusterInit(listing, flagNamespace, flagSkip)
    /\ YamlIdle

\* ------------------------------------------------------ the main goroutine
\* kubeClient.Namespaces().List succeeded; "Dumping cluster objects..."
ListNamespaces ==
    /\ proc = "running" /\ mpc = "list"
    /\ mpc' = "dumping"
    /\ UNCHANGED <<yvars, proc, nss, namespace, skipTypes, idx, wg, task, files, requests,
                   responses, writes, writers, calls, spawned, logDone>>

\* kubeClient.Namespaces().List failed: glog.Fatalf
ListNamespacesFails ==
    /\ proc = "running" /\ mpc = "list"
    /\ proc' = "fatal"
    /\ UNCHANGED <<yvars, mpc, nss, namespace, skipTypes, idx, wg, task, files, requests,
                   responses, writes, writers, calls, spawned, logDone>>

\* namespace != "": main calls dumpNamespace itself
DumpSingle ==
    /\ proc = "running" /\ mpc = "dumping"
    /\ SingleNamespace(namespace)
    /\ task' = [task EXCEPT ![0] = DumpNamespaceBegin(namespace, namespace)]
    /\ calls' = [calls EXCEPT ![namespace] = @ + 1]
    /\ mpc' = "call"
    /\ UNCHANGED <<yvars, proc, nss, namespace, skipTypes, idx, wg, files, requests,
                   responses, writes, writers, spawned, logDone>>

\* the call returned an error: glog.Fatalf
SingleFatal ==
    /\ proc = "running" /\ mpc = "call"
    /\ task[0].pc = "returnedErr"
    /\ proc' = "fatal"
    /\ UNCHANGED <<yvars, mpc, nss, namespace, skipTypes, idx, wg, task, files, requests,
                   responses, writes, writers, calls, spawned, logDone>>

\* the call returned nil: glog.Infof("done")
SingleDone ==
    /\ proc = "running" /\ mpc = "call"
    /\ task[0].pc = "returnedOk"
    /\ logDone' = logDone + 1
    /\ mpc' = "exit"
    /\ UNCHANGED <<yvars, proc, nss, namespace, skipTypes, idx, wg, task, files, requests,
                   responses, writes, writers, calls, spawned>>

\* os.Exit(0)
Exit ==
    /\ proc = "running" /\ mpc = "exit"
    /\ proc' = "exit0"
    /\ UNCHANGED <<yvars, mpc, nss, namespace, skipTypes, idx, wg, task, files, requests,
                   responses, writes, writers, calls, spawned, logDone>>

\* the range loop: a namespace that is being terminated is skipped
LoopSkipTerminating ==
    /\ proc = "running" /\ mpc = "dumping"
    /\ ~SingleNamespace(namespace)
    /\ idx <= Len(nss)
    /\ IsTerminating(nss[idx])
    /\ idx' = idx + 1
    /\ UNCHANGED <<yvars, proc, mpc, nss, namespace, skipTypes, wg, task, files, requests,
                   responses, writes, writers, calls, spawned, logDone>>

\* the range loop: wg.Add(1); name := ns.Name; go func() {...}()
LoopSpawn ==
    /\ proc = "running" /\ mpc = "dumping"
    /\ ~SingleNamespace(namespace)
    /\ idx <= Len(nss)
    /\ ~IsTerminating(nss[idx])
    /\ wg' = wg + 1
    /\ task' = [task EXCEPT ![idx] = [IdleTask EXCEPT !.pc = "spawned", !.name = nss[idx].Name]]
    /\ spawned' = [spawned EXCEPT ![idx] = @ + 1]
    /\ idx' = idx + 1
    /\ UNCHANGED <<yvars, proc, mpc, nss, namespace, skipTypes, files, requests,
                   responses, writes, writers, calls, logDone>>

\* the range loop ends; main reaches wg.Wait()
LoopEnd ==
    /\ proc = "running" /\ mpc = "dumping"
    /\ ~SingleNamespace(namespace)
    /\ idx > Len(nss)
    /\ mpc' = "wait"
    /\ UNCHANGED <<yvars, proc, nss, namespace, skipTypes, idx, wg, task, files, requests,
                   responses, writes, writers, calls, spawned, logDone>>

\* wg.Wait() returns; glog.Infof("done")
WaitDone ==
    /\ proc = "running" /\ mpc = "wait"
    /\ WaitReturns(wg)
    /\ logDone' = logDone + 1
    /\ mpc' = "returned"
    /\ UNCHANGED <<yvars, proc, nss, namespace, skipTypes, idx, wg, task, files, requests,
                   responses, writes, writers, calls, spawned>>

\* dumpCluster and main return
MainReturn ==
    /\ proc = "running" /\ mpc = "returned"
    /\ proc' = "exit0"
    /\ UNCHANGED <<yvars, mpc, nss, namespace, skipTypes, idx, wg, task, files, requests,
                   responses, writes, writers, calls, spawned, logDone>>

\* ------------------------------------------------------------ goroutines
\* the goroutine starts and calls dumpNamespace(kubeClient, name, output, skipTypes)
GoStart(id) ==
    /\ proc = "running" /\ id # 0
    /\ task[id].pc = "spawned"
    /\ LET n == GoroutineName(id) IN
         /\ task' = [task EXCEPT ![id] = DumpNamespaceBegin(task[id].name, n)]
         /\ calls' = [calls EXCEPT ![n] = @ + 1]
    /\ UNCHANGED <<yvars, proc, mpc, nss, namespace, skipTypes, idx, wg, files, requests,
                   responses, writes, writers, spawned, logDone>>

\* dumpNamespace returned an error to the goroutine: glog.Fatalf
GoFatal(id) ==
    /\ proc = "running" /\ id # 0
    /\ task[id].pc = "returnedErr"
    /\ proc' = "fatal"
    /\ UNCHANGED <<yvars, mpc, nss, namespace, skipTypes, idx, wg, task, files, requests,
                   responses, writes, writers, calls, spawned, logDone>>

\* dumpNamespace returned nil to the goroutine: wg.Done()
GoDone(id) ==
    /\ proc = "running" /\ id # 0
    /\ task[id].pc = "returnedOk"
    /\ wg' = wg - 1
    /\ task' = [task EXCEPT ![id].pc = "finished"]
    /\ UNCHANGED <<yvars, proc, mpc, nss, namespace, skipTypes, idx, files, requests,
                   responses, writes, writers, calls, spawned, logDone>>

\* --------------------------------------------------------- dumpNamespace
\* One iteration of the range over the mapping (any order: a Go map), for a
\* type that is skipped.
IterSkip(id) ==
    /\ proc = "running" /\ task[id].pc = "loop"
    /\ \E objectType \in task[id].remaining :
         /\ SkipType(objectType, skipTypes)
         /\ task' = [task EXCEPT ![id].remaining = @ \ {objectType}]
    /\ UNCHANGED <<yvars, proc, mpc, nss, namespace, skipTypes, idx, wg, files, requests,
                   responses, writes, writers, calls, spawned, logDone>>

\* The state of the activation after lines 339-347 of an iteration that did
\* not return: err is the outcome of the query, items what it decoded.
AfterQuery(t, objectType, err, items) ==
    LET result == [t.mapping[objectType] EXCEPT
                       !.Runtime.Items = IF err = "nil" THEN items ELSE @,
                       !.APIVersion = ApiVersionOf(objectType)]
    IN  [t EXCEPT !.remaining = @ \ {objectType},
                  !.mapping[objectType] = result,
                  !.notFound = IF err = "nil" THEN @
                               ELSE AppendNotFound(@, objectType, t.ns),
                  !.data = [k \in DOMAIN @ \cup {objectType} |->
                               IF k = objectType THEN result ELSE @[k]]]

\* One iteration: the query succeeds and is decoded into result.Runtime.
IterQueryOk(id) ==
    /\ proc = "running" /\ task[id].pc = "loop"
    /\ \E objectType \in task[id].remaining, n \in 0..MaxItems :
         /\ ~SkipType(objectType, skipTypes)
         /\ requests' = [requests EXCEPT ![task[id].ns][objectType] = @ + 1]
         /\ responses' = [responses EXCEPT ![task[id].ns][objectType] = [status |-> "ok", items |-> n]]
         /\ task' = [task EXCEPT ![id] =
                        AfterQuery(@, objectType, "nil", ItemsOf(task[id].ns, objectType, n))]
    /\ UNCHANGED <<yvars, proc, mpc, nss, namespace, skipTypes, idx, wg, files,
                   writes, writers, calls, spawned, logDone>>

\* One iteration: the query fails, with a not-found error or another one.
IterQueryErr(id) ==
    /\ proc = "running" /\ task[id].pc = "loop"
    /\ \E objectType \in task[id].remaining, err \in {"notfound", "error"} :
         /\ ~SkipType(objectType, skipTypes)
         /\ requests' = [requests EXCEPT ![task[id].ns][objectType] = @ + 1]
         /\ responses' = [responses EXCEPT ![task[id].ns][objectType] = [status |-> err, items |-> 0]]
         /\ task' = [task EXCEPT ![id] =
                        IF ~IsNotFound(err)
                        THEN Returned(@, "returnedErr", "unexpected error querying type")
                        ELSE AfterQuery(@, objectType, err, <<>>)]
    /\ UNCHANGED <<yvars, proc, mpc, nss, namespace, skipTypes, idx, wg, files,
                   writes, writers, calls, spawned, logDone>>

\* After the loop: the template is executed and the file written.
WriteFile(id) ==
    /\ proc = "running" /\ task[id].pc = "loop"
    /\ task[id].remaining = {}
    /\ LET content == [notFound |-> task[id].notFound, name |-> task[id].ns,
                       types |-> task[id].data]
           path == Path(Output, task[id].ns)
       IN  /\ files' = [files EXCEPT ![path] = Template(content)]
           /\ writes' = [writes EXCEPT ![path] = @ + 1]
           /\ writers' = [writers EXCEPT ![path] = @ \cup {id}]
    /\ task' = [task EXCEPT ![id] = Returned(@, "returnedOk", "")]
    /\ UNCHANGED <<yvars, proc, mpc, nss, namespace, skipTypes, idx, wg, requests,
                   responses, calls, spawned, logDone>>

\* After the loop: ioutil.WriteFile fails and its error is returned.
WriteFileFails(id) ==
    /\ proc = "running" /\ task[id].pc = "loop"
    /\ task[id].remaining = {}
    /\ task' = [task EXCEPT ![id] = Returned(@, "returnedErr", "write")]
    /\ UNCHANGED <<yvars, proc, mpc, nss, namespace, skipTypes, idx, wg, files, requests,
                   responses, writes, writers, calls, spawned, logDone>>

Next ==
    \/ ListNamespaces
    \/ ListNamespacesFails
    \/ DumpSingle
    \/ SingleFatal
    \/ SingleDone
    \/ Exit
    \/ LoopSkipTerminating
    \/ LoopSpawn
    \/ LoopEnd
    \/ WaitDone
    \/ MainReturn
    \/ \E id \in Executors : GoStart(id)
    \/ \E id \in Executors : GoFatal(id)
    \/ \E id \in Executors : GoDone(id)
    \/ \E id \in Executors : IterSkip(id)
    \/ \E id \in Executors : IterQueryOk(id)
    \/ \E id \in Executors : IterQueryErr(id)
    \/ \E id \in Executors : WriteFile(id)
    \/ \E id \in Executors : WriteFileFails(id)

Spec == Init /\ [][Next]_vars

\* ------------------------------------------------------------ marshalYaml
\* Text is a sequence of tokens:
\*   "s"  a whitespace character            "d"  a digit
\*   "q"  a double quote                    "x"  any other character
\*   "R"  the characters  resourceVersion: "
\*   "E"  the characters  ExternalName: ""
Tokens == {"s", "d", "q", "x", "R", "E"}

Texts == UNION {[1..n -> Tokens] : n \in 0..MaxLen}

Objects ==
    [kind : {"Ingress", "Service", "Other"}, status : BOOLEAN, body : Texts]

\* The first position from i on that holds no token c (Len(s) + 1 if none).
RECURSIVE SkipWhile(_, _, _)
SkipWhile(s, i, c) ==
    IF i <= Len(s) /\ s[i] = c THEN SkipWhile(s, i + 1, c) ELSE i

\* regex, matched at position i: the position after the match, or 0 if
\* there is none.  (\s*)resourceVersion: "(\d+)"|(\s*)ExternalName: ""
MatchEnd(s, i) ==
    LET j == SkipWhile(s, i, "s")
    IN  IF j > Len(s) THEN 0
        ELSE IF s[j] = "R"
             THEN LET k == SkipWhile(s, j + 1, "d")
                  IN  IF k > j + 1 /\ k <= Len(s) /\ s[k] = "q" THEN k + 1 ELSE 0
        ELSE IF s[j] = "E" THEN j + 1
        ELSE 0

\* regex.ReplaceAllString(s, "") from position i on: the leftmost matches,
\* none overlapping, are left out in one pass.
RECURSIVE ReplaceAllFrom(_, _)
ReplaceAllFrom(s, i) ==
    IF i > Len(s) THEN <<>>
    ELSE LET e == MatchEnd(s, i)
         IN  IF e # 0 THEN ReplaceAllFrom(s, e)
             ELSE <<s[i]>> \o ReplaceAllFrom(s, i + 1)

ReplaceAllString(s) == ReplaceAllFrom(s, 1)

\* "apiVersion: %v\n" and "kind: %v\n": a line is text that ends in a line break.
ApiVersionLine == <<"x", "s">>
KindLine == <<"x", "s">>

\* YAMLPrinter.PrintObj: the YAML of the object, its status last.
PrintObj(o) == o.body \o (IF o.status THEN <<"x", "s">> ELSE <<>>)

\* marshalYaml up to the printer: the two lines, the status of an Ingress or
\* a Service reset, the object printed into tmplBuf.
MarshalPrint ==
    /\ ypc = "start"
    /\ LET o == IF obj.kind \in {"Ingress", "Service"}
                THEN [obj EXCEPT !.status = FALSE] ELSE obj
       IN  /\ obj' = o
           /\ buf' = ApiVersionLine \o KindLine \o PrintObj(o)
    /\ ypc' = "printed"
    /\ UNCHANGED <<cvars, yamlOut>>

\* marshalYaml's return: regex.ReplaceAllString(tmplBuf.String(), "")
MarshalReplace ==
    /\ ypc = "printed"
    /\ yamlOut' = ReplaceAllString(buf)
    /\ ypc' = "done"
    /\ UNCHANGED <<cvars, obj, buf>>

InitYaml ==
    /\ ClusterInit(<<>>, EmptyName, <<>>)
    /\ obj \in Objects
    /\ buf = <<>>
    /\ yamlOut = <<>>
    /\ ypc = "start"

NextYaml ==
    \/ MarshalPrint
    \/ MarshalReplace

SpecYaml == InitYaml /\ [][NextYaml]_vars

\* ================================================================ claims
FileOf(n) == <<Output, n, "yaml">>
ListedPositions == 1..Len(nss)
ActiveNames == {nss[i].Name : i \in {j \in ListedPositions : nss[j].Phase # "Terminating"}}
TerminatingNames == {nss[i].Name : i \in {j \in ListedPositions : nss[j].Phase = "Terminating"}}
SkippedByFlag(t) == \E i \in 1..Len(skipTypes) : skipTypes[i] = t
Answered(n, t) == responses[n][t].status \in {"ok", "notfound"}
HardError(n) == \E t \in ModelTypes : responses[n][t].status = "error"
Count(seq, x) == Cardinality({i \in 1..Len(seq) : seq[i] = x})
SectionTypes(f) == {f.sections[i].type : i \in 1..Len(f.sections)}
ErrorTypes(f) == {f.errors[i].Type : i \in 1..Len(f.errors)}

\* C1 (as stated): with an empty namespace filter, when "done" is reported
\* exactly one file has been written for every namespace of the listing and
\* none for any other name.
C1_OneFilePerListedNamespace ==
    (namespace = EmptyName /\ logDone > 0)
        => \A n \in AllNames :
              writes[FileOf(n)] = IF n \in ActiveNames \cup TerminatingNames THEN 1 ELSE 0

\* C1 (amended): with an empty namespace filter, when "done" is reported
\* exactly one file has been written for every namespace of the listing that
\* is not Terminating, and none for any other name.
C1_OneFilePerActiveNamespace ==
    (namespace = EmptyName /\ logDone > 0)
        => \A n \in AllNames :
              /\ writes[FileOf(n)] = IF n \in ActiveNames THEN 1 ELSE 0
              /\ files[FileOf(n)].exists <=> n \in ActiveNames
              /\ files[FileOf(n)].exists => files[FileOf(n)].name = n

C1_Witness ==
    /\ namespace = EmptyName /\ logDone > 0
    /\ ActiveNames # {} /\ TerminatingNames # {}
    /\ \A n \in ActiveNames : files[FileOf(n)].exists

\* C2: a type named in skipTypes is never queried and appears neither among
\* the rendered types nor in the errors list of a namespace file; a type not
\* named is queried exactly once by a dump that runs to completion.
C2_SkippedTypesNeverQueried ==
    \A t \in ModelTypes, n \in AllNames :
        IF SkippedByFlag(t)
        THEN /\ requests[n][t] = 0
             /\ \A id \in Executors :
                   /\ t \notin DOMAIN task[id].data
                   /\ Count(task[id].notFound, NotFoundMessage(t, task[id].ns)) = 0
             /\ files[FileOf(n)].exists =>
                   /\ t \notin SectionTypes(files[FileOf(n)])
                   /\ t \notin ErrorTypes(files[FileOf(n)])
        ELSE /\ requests[n][t] <= 1
             /\ writes[FileOf(n)] > 0 => requests[n][t] = 1

C2_Witness ==
    \E n \in AllNames, t \in ModelTypes, u \in ModelTypes :
        /\ SkippedByFlag(t) /\ ~SkippedByFlag(u)
        /\ files[FileOf(n)].exists
        /\ u \in SectionTypes(files[FileOf(n)])

\* C3: a not-found answer does not abort the dump: one message for that type
\* and namespace is appended, the remaining types are queried and the file
\* is written; the errors list of a written file holds one entry for each
\* type whose query returned not-found and none for any other type.
C3_NotFoundIsRecorded ==
    /\ \A id \in Executors :
          /\ task[id].pc = "loop" =>
                \A t \in ModelTypes :
                    Count(task[id].notFound, NotFoundMessage(t, task[id].ns)) =
                        IF t \notin task[id].remaining /\ responses[task[id].ns][t].status = "notfound"
                        THEN 1 ELSE 0
          /\ task[id].err = "unexpected error querying type" => HardError(task[id].ns)
    /\ \A n \in AllNames :
          files[FileOf(n)].exists =>
             /\ \A t \in ModelTypes :
                   /\ Count(files[FileOf(n)].errors, NotFoundMessage(t, n)) =
                         IF responses[n][t].status = "notfound" THEN 1 ELSE 0
                   /\ ~SkippedByFlag(t) => Answered(n, t)
             /\ \A i \in 1..Len(files[FileOf(n)].errors) :
                   /\ files[FileOf(n)].errors[i].Ns = n
                   /\ files[FileOf(n)].errors[i].Type \in ModelTypes

C3_Witness ==
    \E n \in AllNames, t \in ModelTypes, u \in ModelTypes :
        /\ files[FileOf(n)].exists
        /\ files[FileOf(n)].errors = <<NotFoundMessage(t, n)>>
        /\ u \in SectionTypes(files[FileOf(n)])

\* C4: "done" is reported only after every task that was started has
\* finished its dumpNamespace call, its file write included.
C4_JoinAllBarrier ==
    (namespace = EmptyName /\ logDone > 0)
        => /\ wg = 0
           /\ \A i \in ListedNames :
                 /\ task[i].pc \in {"idle", "finished"}
                 /\ spawned[i] > 0 =>
                       /\ task[i].pc = "finished"
                       /\ writes[FileOf(task[i].ns)] = 1

C4_Witness ==
    /\ namespace = EmptyName /\ logDone > 0
    /\ Cardinality({i \in ListedNames : task[i].pc = "finished"}) >= 2

\* C5: the tasks share no mutable state: no two activations work on the same
\* namespace, every path is written by at most one of them, each starts from
\* a fresh mapping, and the content written for a namespace is decided by the
\* API server's answers for that namespace alone.
ExpectedSections(n) ==
    LET keys == SelectSeq(SortedTypes,
                   LAMBDA k : k \in ModelTypes /\ responses[n][k].items > 0)
    IN  [i \in 1..Len(keys) |->
            [type |-> keys[i],
             objects |-> [j \in 1..responses[n][keys[i]].items |->
                            [apiVersion |-> ApiVersionOf(keys[i]),
                             kind |-> NewMappingFactoring[keys[i]].Kind,
                             object |-> [Namespace |-> n, Resource |-> keys[i], Index |-> j]]]]]

Running(id) == task[id].pc \in {"loop", "returnedOk", "returnedErr", "finished"}

C5_NoSharedState ==
    /\ \A p \in Paths : writes[p] <= 1 /\ Cardinality(writers[p]) <= 1
    /\ \A i \in Executors, j \in Executors :
          (i # j /\ Running(i) /\ Running(j)) => task[i].ns # task[j].ns
    /\ \A id \in Executors :
          task[id].pc = "loop" =>
             /\ DOMAIN task[id].data \cap task[id].remaining = {}
             /\ \A t \in task[id].remaining : task[id].mapping[t] = NewMappingFactoring[t]
    /\ \A n \in AllNames :
          files[FileOf(n)].exists =>
             /\ files[FileOf(n)].name = n
             /\ files[FileOf(n)].sections = ExpectedSections(n)
             /\ ErrorTypes(files[FileOf(n)]) = {t \in ModelTypes : responses[n][t].status = "notfound"}

C5_Witness ==
    \E m \in AllNames, n \in AllNames :
        /\ m # n
        /\ files[FileOf(m)].exists /\ files[FileOf(n)].exists
        /\ Len(files[FileOf(m)].sections) > 0 /\ Len(files[FileOf(n)].errors) > 0
        /\ files[FileOf(m)].sections # files[FileOf(n)].sections

\* C6: with a non-empty namespace option dumpNamespace is called once, for
\* that name; no task is started; no other file is written; the run ends
\* right after the dump reports "done".
C6_SingleNamespaceOnly ==
    namespace # EmptyName
        => /\ \A i \in ListedNames : spawned[i] = 0 /\ task[i].pc = "idle"
           /\ wg = 0
           /\ \A n \in AllNames \ {namespace} :
                 /\ calls[n] = 0
                 /\ writes[FileOf(n)] = 0
                 /\ \A t \in ModelTypes : requests[n][t] = 0
           /\ calls[namespace] = IF mpc \in {"list", "dumping"} THEN 0 ELSE 1
           /\ writes[FileOf(namespace)] <= 1
           /\ logDone <= 1
           /\ logDone = 1 =>
                 /\ writes[FileOf(namespace)] = 1
                 /\ task[0].pc = "returnedOk"
                 /\ mpc = "exit"
                 /\ proc # "fatal"

C6_Witness ==
    /\ namespace # EmptyName /\ logDone = 1 /\ proc = "exit0"
    /\ ActiveNames \ {namespace} # {}
    /\ files[FileOf(namespace)].exists

\* C8: an error other than not-found makes dumpNamespace return at once,
\* with no further query and no write of the namespace's file, and the run
\* never reports "done"; a file is written only after every type that is not
\* skipped was answered with success or not-found.
C8_HardErrorAborts ==
    \A n \in AllNames :
        /\ HardError(n) =>
              /\ Cardinality({t \in ModelTypes : responses[n][t].status = "error"}) = 1
              /\ writes[FileOf(n)] = 0
              /\ ~files[FileOf(n)].exists
              /\ logDone = 0
              /\ proc # "exit0"
              /\ \E id \in Executors :
                    /\ task[id].ns = n
                    /\ task[id].pc = "returnedErr"
                    /\ task[id].err = "unexpected error querying type"
        /\ writes[FileOf(n)] > 0 =>
              \A t \in ModelTypes : ~SkippedByFlag(t) => Answered(n, t)

C8_Witness ==
    \E m \in AllNames, n \in AllNames :
        /\ HardError(n) /\ proc = "fatal"
        /\ \E t \in ModelTypes : requests[n][t] = 0 /\ ~SkippedByFlag(t)
        /\ files[FileOf(m)].exists

\* C9: with an empty namespace filter a Terminating namespace gets no task,
\* no query and no file, and every other namespace of the listing gets
\* exactly one task when the loop passes it.
C9_TerminatingSkipped ==
    namespace = EmptyName
        => \A i \in ListedPositions :
              IF nss[i].Phase = "Terminating"
              THEN /\ spawned[i] = 0
                   /\ task[i].pc = "idle"
                   /\ calls[nss[i].Name] = 0
                   /\ \A t \in ModelTypes : requests[nss[i].Name][t] = 0
                   /\ writes[FileOf(nss[i].Name)] = 0
              ELSE spawned[i] = IF idx > i THEN 1 ELSE 0

C9_Witness ==
    /\ namespace = EmptyName /\ mpc = "wait"
    /\ \E i \in ListedPositions, j \in ListedPositions :
          /\ nss[i].Phase = "Terminating" /\ i < j
          /\ nss[j].Phase = "Active" /\ spawned[j] = 1
          /\ files[FileOf(nss[j].Name)].exists

\* The API group an apiVersion label names (the part before the slash; the
\* core group for "v1"), and the API group a REST client talks to.
GroupOfApiVersion(v) ==
    CASE v = "v1" -> "core"
      [] v = "extensions/v1beta1" -> "extensions"
      [] v = "batch/v2alpha1" -> "batch"
      [] v = "apps/v1beta1" -> "apps"
      [] v = "storage.k8s.io/v1beta1" -> "storage.k8s.io"

GroupOfClient(c) ==
    CASE c = "Core" -> "core"
      [] c = "Extensions" -> "extensions"
      [] c = "Batch" -> "batch"
      [] c = "Apps" -> "apps"
      [] c = "Storage" -> "storage.k8s.io"
      [] c = "Autoscaling" -> "autoscaling"

\* C10: the kind, the list type and the apiVersion rendered for a resource
\* type are its own: the list a response is decoded into holds objects of
\* the rendered kind, no two types of a file are rendered under the same
\* kind, and a type is queried through the group its apiVersion names.
C10_LabelsMatchType ==
    /\ \A id \in Executors : \A t \in DOMAIN task[id].data :
          task[id].data[t].Kind = task[id].data[t].Runtime.Elem
    /\ \A n \in AllNames, t \in ModelTypes :
          requests[n][t] > 0 =>
             GroupOfClient(RestClient(t)) = GroupOfApiVersion(ApiVersionOf(t))
    /\ \A n \in AllNames :
          files[FileOf(n)].exists =>
             \A i \in 1..Len(files[FileOf(n)].sections), j \in 1..Len(files[FileOf(n)].sections) :
                i # j => files[FileOf(n)].sections[i].objects[1].kind
                            # files[FileOf(n)].sections[j].objects[1].kind

\* The parts of C10, each alone.
C10_KindIsListElement ==
    \A id \in Executors : \A t \in DOMAIN task[id].data :
        task[id].data[t].Kind = task[id].data[t].Runtime.Elem

C10_ClientGroupIsLabelGroup ==
    \A n \in AllNames, t \in ModelTypes :
        requests[n][t] > 0 =>
            GroupOfClient(RestClient(t)) = GroupOfApiVersion(ApiVersionOf(t))

C10_KindsDistinctInFile ==
    \A n \in AllNames :
        files[FileOf(n)].exists =>
           \A i \in 1..Len(files[FileOf(n)].sections), j \in 1..Len(files[FileOf(n)].sections) :
              i # j => files[FileOf(n)].sections[i].objects[1].kind
                          # files[FileOf(n)].sections[j].objects[1].kind

\* An occurrence of  resourceVersion: "<digits>"  in a text.
HasResourceVersion(s) ==
    \E i \in 1..Len(s) :
        /\ s[i] = "R"
        /\ LET k == SkipWhile(s, i + 1, "d")
           IN  k > i + 1 /\ k <= Len(s) /\ s[k] = "q"

\* s is t with some of its tokens left out.
RECURSIVE IsSubsequence(_, _)
IsSubsequence(s, t) ==
    IF s = <<>> THEN TRUE
    ELSE IF t = <<>> THEN FALSE
    ELSE IF Head(s) = Head(t) THEN IsSubsequence(Tail(s), Tail(t))
    ELSE IsSubsequence(s, Tail(t))

\* Tokens c of a text.
Occurrences(s, c) == Len(SelectSeq(s, LAMBDA e : e = c))
Removed(c) == Occurrences(buf, c) - Occurrences(yamlOut, c)

\* C7, its second half: what marshalYaml returns is the apiVersion line, the
\* kind line and the printer's YAML, in that order, with nothing left out
\* but whitespace and resourceVersion / ExternalName occurrences: one closing
\* quote and at least one digit with every  resourceVersion: "  left out.
C7_RestOfTextKept ==
    ypc = "done" =>
        /\ buf = ApiVersionLine \o KindLine \o PrintObj(obj)
        /\ IsSubsequence(yamlOut, buf)
        /\ Removed("x") = 0
        /\ Removed("q") = Removed("R")
        /\ Removed("d") >= Removed("R")
        /\ Removed("R") = 0 => Removed("d") = 0
        /\ (Removed("R") = 0 /\ Removed("E") = 0) => yamlOut = buf

\* C7: the text marshalYaml returns holds no occurrence of
\* resourceVersion: "<digits>", and is otherwise the two lines and the
\* printer's YAML.
C7_ResourceVersionRemoved ==
    /\ ypc = "done" => ~HasResourceVersion(yamlOut)
    /\ C7_RestOfTextKept

====
